---- MODULE Spec2Model ----
(***************************************************************************)
(* Supervision engine of run_sh_manager: the ScriptManager registry        *)
(* (backend/manager.py) and the ProcessRunner supervisory loop             *)
(* (backend/process_runner.py).                                            *)
(*                                                                         *)
(* Threads: one UI thread that issues the manager's commands one at a      *)
(* time, and one loop thread per started runner.  A command that calls     *)
(* runner.stop() holds the manager's RLock for its whole duration; the     *)
(* loop thread needs that lock in every status callback                    *)
(* (_on_runner_update).                                                    *)
(*                                                                         *)
(* Time is abstracted.  Durations are in tenths of a second.  A bounded    *)
(* wait (thread.join(timeout=10), the ladder's waits) either sees the      *)
(* awaited event or times out; join times out only while the loop thread   *)
(* sits where it cannot move on by itself within the timeout (JoinStuck).  *)
(***************************************************************************)
EXTENDS Integers, Sequences, FiniteSets, TLC

\* ------------------------------------------------------------------ bounds
\* Number of manager commands the UI thread issues in one run.
MaxCmds == 3
\* Largest max_restarts value among the configured profiles.
MaxRestartCap == 2
\* ProcessRunner objects constructed in one run.
MaxRunners == 3
\* Listeners registered in one run.
MaxListeners == 2
\* Number of commands in a run that adds, updates and removes profiles.
MaxRegistryCmds == 2
\* Profiles in a list handed to the store, and store calls in one run.
MaxProfiles == 2
MaxStoreOps == 2
\* Tokens of the text that reach a file in one write.
WriteChunk == 12

\* ------------------------------------------------------- program constants
\* time.sleep(min(0.5, ...)) and waited += 0.5, in tenths of a second.
SleepIncrement == 5
\* self._thread.join(timeout=10), in tenths of a second.
JoinTimeout == 100

\* --------------------------------------------------------------- the world
Names == {"a", "b"}
RunnerIds == 1..MaxRunners
None == "None"
NoProfile == [name |-> None]
\* An Optional[int] is the empty tuple (None) or <<value>>.
NoInt == << >>
\* self._runners.get(name) finds nothing.
NoRunner == 0
\* The values of ScriptManager._statuses: no entry, the status object made by
\* _register_profile, or the status object of runner r (stored by reference).
NoStatus == <<"absent">>
FreshStatus == <<"fresh">>
StatusOf(r) == <<"runner", r>>

\* Paths the profiles may name, and the ones that exist on disk.
ScriptPaths == {"/ok.sh", "/missing.sh"}
ExistingFiles == {"/ok.sh"}

\* Exit codes of a script that ends by itself.
OwnExitCodes == {0, 1}

\* ProcessState
STOPPED == "stopped"
STARTING == "starting"
RUNNING == "running"
RESTARTING == "restarting"
EXITED == "exited"
FAILED == "failed"

\* ScriptProfile (the fields the supervision engine reads).
ScriptProfile(n, path, auto, roe, rdelay, sdelay, maxr, en) ==
    [name |-> n, script_path |-> path, auto_start |-> auto,
     restart_on_exit |-> roe, restart_delay |-> rdelay,
     start_delay |-> sdelay, max_restarts |-> maxr, enabled |-> en]

\* The profiles a store may hold for one name: every combination of the
\* fields the loop and start_profile read, plus auto_start profiles (the flag
\* is read by start_auto_profiles alone, which then calls start_profile).
ProfilesFor(n) ==
    { ScriptProfile(n, path, FALSE, roe, rdelay, sdelay, maxr, en) :
        path \in ScriptPaths, roe \in BOOLEAN,
        rdelay \in {0, SleepIncrement + 2}, sdelay \in {0, JoinTimeout + 50},
        maxr \in {NoInt} \cup {<<k>> : k \in 0..MaxRestartCap}, en \in BOOLEAN }
    \cup
    { ScriptProfile(n, "/ok.sh", TRUE, roe, 0, 0, NoInt, en) :
        roe \in BOOLEAN, en \in BOOLEAN }

\* ProcessStatus(name=...)
ProcessStatus(n) ==
    [name |-> n, state |-> STOPPED, pid |-> None, restarts |-> 0,
     last_exit_code |-> NoInt, last_error |-> None]

\* Mutant: the text is written to the store file itself.
TempPath_canonical == "profiles.json"

\* The files of the store directory, none of them present.
StorePath == "profiles.json"
TempPath == "profiles.tmp"
BackupPath == "profiles.bak"
StoreFiles == {StorePath, TempPath, BackupPath}
Missing == <<"missing">>
NoFiles == [f \in StoreFiles |-> Missing]
IoIdle ==
    [op |-> "idle", pc |-> "idle", arg |-> << >>, text |-> << >>, pos |-> 0,
     before |-> Missing, result |-> << >>, raised |-> None, last |-> << >>,
     nops |-> 0]

Idle ==
    [op |-> "idle", name |-> None, force |-> FALSE, pc |-> "idle", r |-> 0,
     sent |-> << >>, todo |-> << >>, was_running |-> FALSE, was_live |-> FALSE,
     newp |-> NoProfile, is_running |-> FALSE, raised |-> None]

VARIABLES
    profiles,          \* ScriptManager._profiles: name -> profile, NoProfile if absent
    runners,           \* ScriptManager._runners: name -> runner id, NoRunner if absent
    statuses,          \* ScriptManager._statuses: name -> NoStatus, FreshStatus or StatusOf(r)
    lock,              \* ScriptManager._lock: "free" or "ui"
    cmd,               \* the command the UI thread is executing
    ncmds,             \* commands issued so far
    rprofile,          \* ProcessRunner.profile
    status,            \* ProcessRunner.status
    thread,            \* ProcessRunner._thread: "none", "done" or the loop's position
    cont,              \* where the loop goes on after the pending status callback
    process,           \* ProcessRunner._process is set
    os,                \* the child process last launched: [st, code]
    stop_event,        \* ProcessRunner._stop_event
    restart_attempts,  \* _run_loop local
    waited,            \* _run_loop local
    sleep_len,         \* argument of the running time.sleep of the restart wait
    launches,          \* history: processes launched by the current loop
    emitted,           \* history: states passed to the status callback since the
                       \*   current loop began
    listeners,         \* ScriptManager._listeners: what each callback does when called
    delivered,         \* history: the listeners called for the latest status update
    nrunners,          \* ProcessRunner objects constructed so far
    saved,             \* the profiles last handed to ProfileStore.save_profiles (as a set)
    files,             \* the store directory: path -> content
    io                 \* the ProfileStore call in progress and its outcome

mgr_vars == <<profiles, runners, statuses>>
run_vars == <<rprofile, status, thread, cont, process, os, stop_event,
              restart_attempts, waited, sleep_len, launches, emitted>>
ext_vars == <<listeners, nrunners, saved, files, io>>
vars == <<profiles, runners, statuses, lock, cmd, ncmds, rprofile, status,
          thread, cont, process, os, stop_event, restart_attempts, waited,
          sleep_len, launches, emitted, listeners, delivered, nrunners, saved,
          files, io>>

Min(x, y) == IF x < y THEN x ELSE y

\* ------------------------------------------------------------------- Init
\* ScriptManager.__init__ with a store that holds profile p, named "a", and
\* after it profile q, named "b", unless q is NoProfile:
\* _load_initial_profiles registers them (status, runner), nothing is started.
\* The runner objects not yet constructed are given p as well.
Registered(p, q) ==
    /\ profiles = [n \in Names |-> IF n = "a" THEN p ELSE q]
    /\ rprofile = [r \in RunnerIds |-> IF r = 2 /\ q # NoProfile THEN q ELSE p]
    /\ runners = [n \in Names |-> IF n = "a" THEN 1
                                  ELSE IF q # NoProfile THEN 2 ELSE NoRunner]
    /\ statuses = [n \in Names |-> IF n = "a" \/ q # NoProfile
                                   THEN FreshStatus ELSE NoStatus]
    /\ lock = "free"
    /\ cmd = Idle
    /\ ncmds = 0
    /\ status = [r \in RunnerIds |-> ProcessStatus(rprofile[r].name)]
    /\ thread = [r \in RunnerIds |-> "none"]
    /\ cont = [r \in RunnerIds |-> "none"]
    /\ process = [r \in RunnerIds |-> FALSE]
    /\ os = [r \in RunnerIds |-> [st |-> "none", code |-> NoInt]]
    /\ stop_event = [r \in RunnerIds |-> FALSE]
    /\ restart_attempts = [r \in RunnerIds |-> 0]
    /\ waited = [r \in RunnerIds |-> 0]
    /\ sleep_len = [r \in RunnerIds |-> 0]
    /\ launches = [r \in RunnerIds |-> 0]
    /\ emitted = [r \in RunnerIds |-> << >>]
    /\ listeners = << >>
    /\ delivered = << >>
    /\ nrunners = IF q # NoProfile THEN 2 ELSE 1
    /\ saved = {p, q} \ {NoProfile}

\* The manager specifications leave the files of the store aside.
Constructed(p, q) ==
    /\ Registered(p, q)
    /\ files = NoFiles
    /\ io = IoIdle

Init == \E p \in ProfilesFor("a") : Constructed(p, NoProfile)

\* ------------------------------------------------------- ProcessRunner loop
\* self._thread and self._thread.is_alive()
ThreadAlive(r) == thread[r] \notin {"none", "done"}

\* _update_state / _update_failure up to the call of the callback: the status
\* is written and handed to the callback, which then waits for the manager's
\* lock (notify_status).
SetStatus(r, st, next) ==
    /\ status' = [status EXCEPT ![r] = st]
    /\ emitted' = [emitted EXCEPT ![r] = Append(@, st.state)]
    /\ thread' = [thread EXCEPT ![r] = "notify"]
    /\ cont' = [cont EXCEPT ![r] = next]

\* _run_loop, lines 83-87: the thread starts.
run_loop_begin(r) ==
    /\ thread[r] = "begin"
    /\ restart_attempts' = [restart_attempts EXCEPT ![r] = 0]
    /\ status' = [status EXCEPT ![r].restarts = 0]
    /\ thread' = [thread EXCEPT ![r] =
                    IF rprofile[r].start_delay > 0 THEN "start_sleep" ELSE "check"]
    /\ launches' = [launches EXCEPT ![r] = 0]
    /\ emitted' = [emitted EXCEPT ![r] = << >>]
    /\ UNCHANGED <<ext_vars, delivered, mgr_vars, lock, cmd, ncmds, rprofile, cont, process, os,
                   stop_event, waited, sleep_len>>

\* time.sleep(profile.start_delay) returns.
start_delay_over(r) ==
    /\ thread[r] = "start_sleep"
    /\ thread' = [thread EXCEPT ![r] = "check"]
    /\ UNCHANGED <<ext_vars, delivered, mgr_vars, lock, cmd, ncmds, rprofile, status, cont, process,
                   os, stop_event, restart_attempts, waited, sleep_len,
                   launches, emitted>>

\* while not self._stop_event.is_set(): self._update_state(STARTING)
loop_check(r) ==
    /\ thread[r] = "check"
    /\ IF stop_event[r]
       THEN /\ thread' = [thread EXCEPT ![r] = "finish"]
            /\ UNCHANGED <<status, emitted, cont>>
       ELSE SetStatus(r, [status[r] EXCEPT !.state = STARTING], "launch")
    /\ UNCHANGED <<ext_vars, delivered, mgr_vars, lock, cmd, ncmds, rprofile, process, os,
                   stop_event, restart_attempts, waited, sleep_len, launches>>

\* Mutant: the script's existence is not tested before the launch.
ScriptMissing_unchecked(r) == FALSE

\* _launch_process raises FileNotFoundError(f"Script not found: {script_path}")
ScriptMissing(r) == rprofile[r].script_path \notin ExistingFiles

LaunchError(r) == "Script not found: " \o rprofile[r].script_path

\* process = self._launch_process() ... self._update_state(RUNNING), or the
\* except branch: self._update_failure(str(exc)); break
launch_process(r) ==
    /\ thread[r] = "launch"
    /\ IF ScriptMissing(r)
       THEN /\ SetStatus(r, [status[r] EXCEPT !.state = FAILED,
                                              !.last_error = LaunchError(r)],
                         "finish")
            /\ UNCHANGED <<process, os, launches>>
       ELSE /\ os' = [os EXCEPT ![r] = [st |-> "alive", code |-> NoInt]]
            /\ process' = [process EXCEPT ![r] = TRUE]
            /\ launches' = [launches EXCEPT ![r] = @ + 1]
            /\ SetStatus(r, [status[r] EXCEPT !.state = RUNNING, !.pid = "pid"],
                         "wait")
    /\ UNCHANGED <<ext_vars, delivered, mgr_vars, lock, cmd, ncmds, rprofile, stop_event,
                   restart_attempts, waited, sleep_len>>

\* Mutant: the budget test is >= instead of >.
BudgetExceeded_ge(r, attempts) ==
    /\ rprofile[r].max_restarts # NoInt
    /\ attempts >= rprofile[r].max_restarts[1]

\* profile.max_restarts is not None and restart_attempts > profile.max_restarts
BudgetExceeded(r, attempts) ==
    /\ rprofile[r].max_restarts # NoInt
    /\ attempts > rprofile[r].max_restarts[1]

\* Mutant: restart_on_exit is not consulted after the exit.
ExitBranch_norestartflag(r) ==
    IF stop_event[r] THEN "stopped"
    ELSE IF BudgetExceeded(r, restart_attempts[r] + 1) THEN "budget"
    ELSE "restart"

\* Mutant: the cancellation flag is not tested after process.wait().
ExitBranch_nostop(r) ==
    IF ~rprofile[r].restart_on_exit THEN "exited"
    ELSE IF BudgetExceeded(r, restart_attempts[r] + 1) THEN "budget"
    ELSE "restart"

\* The branch taken once process.wait() has returned (lines 102-113).
ExitBranch(r) ==
    IF stop_event[r] THEN "stopped"
    ELSE IF ~rprofile[r].restart_on_exit THEN "exited"
    ELSE IF BudgetExceeded(r, restart_attempts[r] + 1) THEN "budget"
    ELSE "restart"

\* Mutant: the pid stays in the status after the exit.
Reaped_keeps_pid(st, code) == [st EXCEPT !.last_exit_code = code]

\* self.status.last_exit_code = return_code; self.status.pid = None
Reaped(st, code) == [st EXCEPT !.last_exit_code = code, !.pid = None]

\* return_code = process.wait() ... up to the state the exit leads to.
wait_returns(r) ==
    /\ thread[r] = "wait"
    /\ os[r].st = "exited"
    /\ LET st == Reaped(status[r], os[r].code)
           n == restart_attempts[r] + 1
       IN CASE ExitBranch(r) = "stopped" ->
                 /\ SetStatus(r, [st EXCEPT !.state = STOPPED], "finish")
                 /\ UNCHANGED <<restart_attempts, waited>>
            [] ExitBranch(r) = "exited" ->
                 /\ SetStatus(r, [st EXCEPT !.state = EXITED], "finish")
                 /\ UNCHANGED <<restart_attempts, waited>>
            [] ExitBranch(r) = "budget" ->
                 /\ SetStatus(r, [st EXCEPT !.restarts = n, !.state = FAILED,
                                    !.last_error = "Reached max restart attempts"],
                              "finish")
                 /\ restart_attempts' = [restart_attempts EXCEPT ![r] = n]
                 /\ UNCHANGED waited
            [] ExitBranch(r) = "restart" ->
                 /\ SetStatus(r, [st EXCEPT !.restarts = n, !.state = RESTARTING],
                              IF rprofile[r].restart_delay > 0
                              THEN "rwait_check" ELSE "check")
                 /\ restart_attempts' = [restart_attempts EXCEPT ![r] = n]
                 /\ waited' = [waited EXCEPT ![r] = 0]
    /\ UNCHANGED <<ext_vars, delivered, mgr_vars, lock, cmd, ncmds, rprofile, process, os,
                   stop_event, sleep_len, launches>>

\* Mutant: the restart wait does not test the cancellation flag.
RestartWaitGoesOn_uncancellable(r) == waited[r] < rprofile[r].restart_delay

\* while waited < profile.restart_delay and not self._stop_event.is_set()
RestartWaitGoesOn(r) ==
    /\ waited[r] < rprofile[r].restart_delay
    /\ ~stop_event[r]

\* min(0.5, profile.restart_delay - waited)
SleepLength(r) == Min(SleepIncrement, rprofile[r].restart_delay - waited[r])

\* The inner while's test, and the call of time.sleep.
restart_wait_check(r) ==
    /\ thread[r] = "rwait_check"
    /\ IF RestartWaitGoesOn(r)
       THEN /\ thread' = [thread EXCEPT ![r] = "rsleep"]
            /\ sleep_len' = [sleep_len EXCEPT ![r] = SleepLength(r)]
       ELSE /\ thread' = [thread EXCEPT ![r] = "check"]
            /\ UNCHANGED sleep_len
    /\ UNCHANGED <<ext_vars, delivered, mgr_vars, lock, cmd, ncmds, rprofile, status, cont, process,
                   os, stop_event, restart_attempts, waited, launches, emitted>>

\* time.sleep returns; waited += 0.5
restart_sleep_over(r) ==
    /\ thread[r] = "rsleep"
    /\ waited' = [waited EXCEPT ![r] = @ + SleepIncrement]
    /\ thread' = [thread EXCEPT ![r] = "rwait_check"]
    /\ UNCHANGED <<ext_vars, delivered, mgr_vars, lock, cmd, ncmds, rprofile, status, cont, process,
                   os, stop_event, restart_attempts, sleep_len, launches,
                   emitted>>

\* self._process = None, and the thread ends.
run_loop_finish(r) ==
    /\ thread[r] = "finish"
    /\ process' = [process EXCEPT ![r] = FALSE]
    /\ thread' = [thread EXCEPT ![r] = "done"]
    /\ UNCHANGED <<ext_vars, delivered, mgr_vars, lock, cmd, ncmds, rprofile, status, cont, os,
                   stop_event, restart_attempts, waited, sleep_len, launches,
                   emitted>>

\* for listener in self._listeners: listener(status).  An exception leaves
\* _on_runner_update and is swallowed by _notify_status: the listeners called
\* are those up to the first one that raises.
Notified(ls) ==
    LET raising == {i \in 1..Len(ls) : ls[i] = "raises"}
        last == IF raising = {} THEN Len(ls)
                ELSE CHOOSE i \in raising : \A j \in raising : i <= j
    IN [i \in 1..last |-> i]

\* Mutant: _notify_status without its try/except; the exception of a
\* listener leaves the callback and ends the loop.
AfterCallback_unguarded(r, ls) ==
    IF \E i \in 1..Len(ls) : ls[i] = "raises" THEN "finish" ELSE cont[r]

\* try: callback(self.status) / except Exception: pass -- whatever the
\* listeners ls do, the loop goes on where the transition leads.
AfterCallback(r, ls) == cont[r]

\* _notify_status -> ScriptManager._on_runner_update on the loop thread:
\* with self._lock: self._statuses[status.name] = status, then the listeners.
notify_status(r) ==
    /\ thread[r] = "notify"
    /\ lock = "free"
    /\ statuses' = [statuses EXCEPT ![status[r].name] = StatusOf(r)]
    /\ thread' = [thread EXCEPT ![r] = AfterCallback(r, listeners)]
    /\ delivered' = Notified(listeners)
    /\ UNCHANGED <<ext_vars, profiles, runners, lock, cmd, ncmds, rprofile,
                   status, cont, process, os, stop_event, restart_attempts,
                   waited, sleep_len, launches, emitted>>

\* The script ends by itself (in one loop, at most MaxRestartCap + 1 times;
\* after that it runs until it is signalled).
process_exits(r) ==
    /\ os[r].st = "alive"
    /\ restart_attempts[r] <= MaxRestartCap
    /\ \E c \in OwnExitCodes : os' = [os EXCEPT ![r] = [st |-> "exited", code |-> <<c>>]]
    /\ UNCHANGED <<ext_vars, delivered, mgr_vars, lock, cmd, ncmds, rprofile, status, thread, cont,
                   process, stop_event, restart_attempts, waited, sleep_len,
                   launches, emitted>>

\* The steps of the loop thread of runner r.
ThreadStep(r) ==
    \/ run_loop_begin(r)
    \/ start_delay_over(r)
    \/ loop_check(r)
    \/ launch_process(r)
    \/ wait_returns(r)
    \/ restart_wait_check(r)
    \/ restart_sleep_over(r)
    \/ run_loop_finish(r)
    \/ notify_status(r)

LoopStep ==
    \E r \in RunnerIds :
        \/ ThreadStep(r)
        \/ process_exits(r)

\* ------------------------------------------------- ProcessRunner public API
\* Mutant: start() without the test of self._thread.is_alive().
start_unchecked(r) ==
    /\ stop_event' = [stop_event EXCEPT ![r] = FALSE]
    /\ thread' = [thread EXCEPT ![r] = "begin"]

\* ProcessRunner.start
start(r) ==
    IF ThreadAlive(r)
    THEN UNCHANGED <<stop_event, thread>>
    ELSE /\ stop_event' = [stop_event EXCEPT ![r] = FALSE]
         /\ thread' = [thread EXCEPT ![r] = "begin"]

\* Mutant: stop() enters the ladder whenever a process handle is set.
ProcessLive_handle(r) == process[r]

\* proc and proc.poll() is None (stop), also ProcessRunner.is_running
ProcessLive(r) == process[r] /\ os[r].st = "alive"

\* ProcessRunner.stop, lines 47-49: the flag is set and the ladder is entered
\* only for a live process.  c is the command that makes the call.
stop_begin(c, r) ==
    /\ stop_event' = [stop_event EXCEPT ![r] = TRUE]
    /\ cmd' = [c EXCEPT !.r = r, !.sent = << >>,
                        !.pc = IF ProcessLive(r) THEN "sigterm" ELSE "join",
                        !.was_running = (status[r].state = RUNNING /\ ProcessLive(r)),
                        !.was_live = (os[r].st = "alive")]

\* Mutant: join() without a timeout.
JoinStuck_notimeout(r) == FALSE

\* Where thread.join(timeout=10) runs into its timeout: the loop thread waits
\* for the manager's lock (held by the joining command), for a child that is
\* still alive, or sleeps a start_delay longer than the timeout.
JoinStuck(r) ==
    \/ thread[r] = "notify" /\ lock = "ui"
    \/ thread[r] = "wait" /\ os[r].st = "alive"
    \/ thread[r] = "start_sleep" /\ rprofile[r].start_delay > JoinTimeout

\* Mutant: the ladder goes on to the next rung although the wait saw the exit.
LadderNext_noreturn(exited, rung) == rung

\* if self._wait_for_exit(process, timeout=...): return
LadderNext(exited, rung) == IF exited THEN "join" ELSE rung

\* _terminate_process: SIGTERM, then up to 10 s for the exit.
send_sigterm ==
    /\ cmd.pc = "sigterm"
    /\ LET r == cmd.r IN
       IF os[r].st = "alive"
       THEN \/ /\ os' = [os EXCEPT ![r] = [st |-> "exited", code |-> <<-15>>]]
               /\ cmd' = [cmd EXCEPT !.sent = Append(@, "SIGTERM"),
                                     !.pc = LadderNext(TRUE, "sigint")]
            \/ /\ os' = os
               /\ cmd' = [cmd EXCEPT !.sent = Append(@, "SIGTERM"),
                                     !.pc = LadderNext(FALSE, "sigint")]
       ELSE /\ os' = os
            /\ cmd' = [cmd EXCEPT !.sent = Append(@, "SIGTERM"),
                                  !.pc = LadderNext(TRUE, "sigint")]
    /\ UNCHANGED <<ext_vars, delivered, mgr_vars, lock, ncmds, rprofile, status, thread, cont,
                   process, stop_event, restart_attempts, waited, sleep_len,
                   launches, emitted>>

\* if force or process.poll() is None: SIGINT, then up to 5 s for the exit.
send_sigint ==
    /\ cmd.pc = "sigint"
    /\ LET r == cmd.r IN
       IF cmd.force \/ os[r].st = "alive"
       THEN IF os[r].st = "alive"
            THEN \/ /\ os' = [os EXCEPT ![r] = [st |-> "exited", code |-> <<-2>>]]
                    /\ cmd' = [cmd EXCEPT !.sent = Append(@, "SIGINT"),
                                          !.pc = LadderNext(TRUE, "sigkill")]
                 \/ /\ os' = os
                    /\ cmd' = [cmd EXCEPT !.sent = Append(@, "SIGINT"),
                                          !.pc = LadderNext(FALSE, "sigkill")]
            ELSE /\ os' = os
                 /\ cmd' = [cmd EXCEPT !.sent = Append(@, "SIGINT"),
                                       !.pc = LadderNext(TRUE, "sigkill")]
       ELSE /\ os' = os
            /\ cmd' = [cmd EXCEPT !.pc = "join"]
    /\ UNCHANGED <<ext_vars, delivered, mgr_vars, lock, ncmds, rprofile, status, thread, cont,
                   process, stop_event, restart_attempts, waited, sleep_len,
                   launches, emitted>>

\* SIGKILL, then up to 5 s for the exit; the ladder ends either way.
send_sigkill ==
    /\ cmd.pc = "sigkill"
    /\ LET r == cmd.r IN
       IF os[r].st = "alive"
       THEN \/ os' = [os EXCEPT ![r] = [st |-> "exited", code |-> <<-9>>]]
            \/ os' = os
       ELSE os' = os
    /\ cmd' = [cmd EXCEPT !.sent = Append(@, "SIGKILL"), !.pc = "join"]
    /\ UNCHANGED <<ext_vars, delivered, mgr_vars, lock, ncmds, rprofile, status, thread, cont,
                   process, stop_event, restart_attempts, waited, sleep_len,
                   launches, emitted>>

\* Where the command goes on once runner.stop() has returned: restart() calls
\* start(), stop_all takes the next name, stop_profile returns.
AfterStop(c) ==
    IF c.op = "restart" THEN "start"
    ELSE IF c.op = "stop_all" THEN "next"
    ELSE IF c.op = "update" THEN "replace"
    ELSE IF c.op = "remove" THEN "discard"
    ELSE "ret"

\* ProcessRunner.stop, lines 51-57: the join (the thread has ended, or the
\* timeout) and the final block, whose callback runs on the calling thread
\* under the reentrant manager lock.
stop_join ==
    /\ cmd.pc = "join"
    /\ LET r == cmd.r IN
       /\ ~ThreadAlive(r) \/ JoinStuck(r)
       /\ process' = [process EXCEPT ![r] = FALSE]
       /\ status' = [status EXCEPT ![r].state = STOPPED, ![r].pid = None]
       /\ emitted' = [emitted EXCEPT ![r] = Append(@, STOPPED)]
       /\ statuses' = [statuses EXCEPT ![status[r].name] = StatusOf(r)]
    /\ cmd' = [cmd EXCEPT !.pc = AfterStop(cmd)]
    /\ lock' = IF cmd.op = "stop_all" THEN "free" ELSE lock
    /\ delivered' = Notified(listeners)
    /\ UNCHANGED <<ext_vars, profiles, runners, ncmds, rprofile, thread, cont,
                   os, stop_event, restart_attempts, waited, sleep_len,
                   launches>>

\* ProcessRunner.restart, line 61: self.start(), and restart_profile returns.
restart_start ==
    /\ cmd.pc = "start"
    /\ start(cmd.r)
    /\ cmd' = [cmd EXCEPT !.pc = "ret"]
    /\ UNCHANGED <<ext_vars, delivered, mgr_vars, lock, ncmds, rprofile, status, cont, process, os,
                   restart_attempts, waited, sleep_len, launches, emitted>>

\* ---------------------------------------------------- ScriptManager commands
CanIssue == cmd = Idle /\ ncmds < MaxCmds /\ lock = "free"

\* Mutant: start_profile does not test profile.enabled.
StartAllowed_registered(n) == profiles[n] # NoProfile

\* if not profile or not profile.enabled: return
StartAllowed(n) == profiles[n] # NoProfile /\ profiles[n].enabled

\* The body of ScriptManager.start_profile.
start_profile_body(n) ==
    IF StartAllowed(n)
    THEN start(runners[n])
    ELSE UNCHANGED <<stop_event, thread>>

start_profile(n) ==
    /\ CanIssue
    /\ ncmds' = ncmds + 1
    /\ cmd' = [Idle EXCEPT !.op = "start", !.name = n, !.pc = "ret"]
    /\ lock' = "ui"
    /\ start_profile_body(n)
    /\ UNCHANGED <<ext_vars, delivered, mgr_vars, rprofile, status, cont, process, os,
                   restart_attempts, waited, sleep_len, launches, emitted>>

\* ScriptManager.stop_profile and ScriptManager.restart_profile up to the
\* runner's stop(): runner = self._runners.get(name); if runner: ...
call_stop(c) ==
    IF runners[c.name] = NoRunner
    THEN /\ cmd' = [c EXCEPT !.pc = IF c.op = "stop_all" THEN "next" ELSE "ret"]
         /\ lock' = IF c.op = "stop_all" THEN "free" ELSE "ui"
         /\ UNCHANGED stop_event
    ELSE /\ lock' = "ui"
         /\ stop_begin(c, runners[c.name])

stop_profile(n, f) ==
    /\ CanIssue
    /\ ncmds' = ncmds + 1
    /\ call_stop([Idle EXCEPT !.op = "stop", !.name = n, !.force = f])
    /\ UNCHANGED <<ext_vars, delivered, mgr_vars, rprofile, status, thread, cont, process, os,
                   restart_attempts, waited, sleep_len, launches, emitted>>

restart_profile(n) ==
    /\ CanIssue
    /\ ncmds' = ncmds + 1
    /\ call_stop([Idle EXCEPT !.op = "restart", !.name = n])
    /\ UNCHANGED <<ext_vars, delivered, mgr_vars, rprofile, status, thread, cont, process, os,
                   restart_attempts, waited, sleep_len, launches, emitted>>

\* The registered names in the order of the dict (one name is registered).
NameOrder == <<"a", "b">>
IsRegistered(n) == profiles[n] # NoProfile
HasRunner(n) == runners[n] # NoRunner

\* for profile in self.get_profiles(): the list is taken under the lock first.
start_auto_profiles ==
    /\ CanIssue
    /\ ncmds' = ncmds + 1
    /\ cmd' = [Idle EXCEPT !.op = "start_auto", !.pc = "next",
                           !.todo = SelectSeq(NameOrder, IsRegistered)]
    /\ UNCHANGED <<ext_vars, delivered, mgr_vars, lock, run_vars>>

\* if profile.enabled and profile.auto_start: self.start_profile(profile.name)
AutoStarted(p) == p.enabled /\ p.auto_start

start_auto_next ==
    /\ cmd.op = "start_auto"
    /\ cmd.pc = "next"
    /\ IF cmd.todo = << >>
       THEN /\ cmd' = [cmd EXCEPT !.pc = "ret"]
            /\ UNCHANGED <<stop_event, thread>>
       ELSE /\ cmd' = [cmd EXCEPT !.todo = Tail(@)]
            /\ IF AutoStarted(profiles[Head(cmd.todo)])
               THEN start_profile_body(Head(cmd.todo))
               ELSE UNCHANGED <<stop_event, thread>>
    /\ UNCHANGED <<ext_vars, delivered, mgr_vars, lock, ncmds, rprofile, status, cont, process, os,
                   restart_attempts, waited, sleep_len, launches, emitted>>

\* for name in list(self._runners.keys()): self.stop_profile(name)
stop_all ==
    /\ CanIssue
    /\ ncmds' = ncmds + 1
    /\ cmd' = [Idle EXCEPT !.op = "stop_all", !.pc = "next",
                           !.todo = SelectSeq(NameOrder, HasRunner)]
    /\ UNCHANGED <<ext_vars, delivered, mgr_vars, lock, run_vars>>

stop_all_next ==
    /\ cmd.op = "stop_all"
    /\ cmd.pc = "next"
    /\ IF cmd.todo = << >>
       THEN /\ cmd' = [cmd EXCEPT !.pc = "ret"]
            /\ UNCHANGED <<lock, stop_event>>
       ELSE call_stop([cmd EXCEPT !.name = Head(cmd.todo), !.todo = Tail(@)])
    /\ UNCHANGED <<ext_vars, delivered, mgr_vars, ncmds, rprofile, status, thread, cont, process, os,
                   restart_attempts, waited, sleep_len, launches, emitted>>

\* The command returns to the UI (and leaves its with self._lock block).
command_returns ==
    /\ cmd.pc = "ret"
    /\ cmd' = Idle
    /\ lock' = "free"
    /\ UNCHANGED <<ext_vars, delivered, mgr_vars, ncmds, run_vars>>

\* The steps by which the call in progress on the UI thread goes on.
CommandStep ==
    \/ start_auto_next
    \/ stop_all_next
    \/ send_sigterm
    \/ send_sigint
    \/ send_sigkill
    \/ stop_join
    \/ restart_start
    \/ command_returns

Command ==
    \/ \E n \in Names : start_profile(n)
    \/ \E n \in Names, f \in BOOLEAN : stop_profile(n, f)
    \/ \E n \in Names : restart_profile(n)
    \/ start_auto_profiles
    \/ stop_all
    \/ CommandStep

Next == LoopStep \/ Command

Spec == Init /\ [][Next]_vars

\* ------------------------------------------------------ profile management
\* An enabled profile with an existing script that passes through every
\* position of the loop.
FullLoopProfile ==
    ScriptProfile("a", "/ok.sh", FALSE, TRUE, SleepIncrement + 2,
                  JoinTimeout + 50, NoInt, TRUE)

\* The profiles handed to add_profile and update_profile.
NewProfiles ==
    { ScriptProfile(n, "/ok.sh", FALSE, FALSE, 0, 0, NoInt, en) :
        n \in Names, en \in BOOLEAN }

\* Mutant: only the enabled profiles are handed to the store.
ProfileSet_enabled(ps) ==
    {ps[n] : n \in {m \in Names : ps[m] # NoProfile /\ ps[m].enabled}}

\* list(self._profiles.values()) of a registry, without its order.
ProfileSet(ps) == {ps[n] : n \in {m \in Names : ps[m] # NoProfile}}

\* A run of profile management takes its commands from a budget of its own.
CanManage == CanIssue /\ ncmds < MaxRegistryCmds

\* A command that raises: nothing is done, the exception reaches the caller.
Raise(c, exc) ==
    /\ cmd' = [c EXCEPT !.pc = "ret", !.raised = exc]
    /\ lock' = "ui"
    /\ UNCHANGED <<mgr_vars, run_vars, saved, nrunners>>

\* _register_profile: the profile, a new status and a new runner under
\* profile.name, in a registry from which the names in gone were popped.
register_profile(gone, p) ==
    LET r == nrunners + 1 IN
    /\ profiles' = [n \in Names |-> IF n = p.name THEN p
                                    ELSE IF n \in gone THEN NoProfile
                                    ELSE profiles[n]]
    /\ statuses' = [n \in Names |-> IF n = p.name THEN FreshStatus
                                    ELSE IF n \in gone THEN NoStatus
                                    ELSE statuses[n]]
    /\ runners' = [n \in Names |-> IF n = p.name THEN r
                                   ELSE IF n \in gone THEN NoRunner
                                   ELSE runners[n]]
    /\ nrunners' = r
    /\ rprofile' = [rprofile EXCEPT ![r] = p]
    /\ status' = [status EXCEPT ![r] = ProcessStatus(p.name)]
    /\ saved' = ProfileSet(profiles')

\* ScriptManager.add_profile
add_profile(p) ==
    /\ CanManage
    /\ ncmds' = ncmds + 1
    /\ LET c == [Idle EXCEPT !.op = "add", !.name = p.name, !.newp = p] IN
       IF IsRegistered(p.name)
       THEN Raise(c, "ValueError")
       ELSE /\ nrunners < MaxRunners
            /\ register_profile({}, p)
            /\ cmd' = [c EXCEPT !.pc = "ret"]
            /\ lock' = "ui"
            /\ UNCHANGED <<thread, cont, process, os, stop_event,
                           restart_attempts, waited, sleep_len, launches,
                           emitted>>
    /\ UNCHANGED <<listeners, delivered, files, io>>

\* Mutant: a rename onto a registered name is not refused.
RenameConflict_unchecked(n, p) == FALSE

\* new_profile.name != name and new_profile.name in self._profiles
RenameConflict(n, p) == p.name # n /\ IsRegistered(p.name)

\* ScriptManager.update_profile up to the old runner's stop(force=False).
update_profile(n, p) ==
    /\ CanManage
    /\ ncmds' = ncmds + 1
    /\ LET c == [Idle EXCEPT !.op = "update", !.name = n, !.newp = p] IN
       IF ~IsRegistered(n)
       THEN Raise(c, "KeyError")
       ELSE IF RenameConflict(n, p)
       THEN Raise(c, "ValueError")
       ELSE /\ nrunners < MaxRunners
            /\ lock' = "ui"
            /\ IF runners[n] = NoRunner
               THEN /\ cmd' = [c EXCEPT !.pc = "replace"]
                    /\ UNCHANGED stop_event
               ELSE stop_begin([c EXCEPT !.is_running = ProcessLive(runners[n])],
                               runners[n])
            /\ UNCHANGED <<mgr_vars, rprofile, status, thread, cont, process,
                           os, restart_attempts, waited, sleep_len, launches,
                           emitted, saved, nrunners>>
    /\ UNCHANGED <<listeners, delivered, files, io>>

\* Mutant: the new runner is started whether or not the old one was running.
StartAfterUpdate_always(c) == c.newp.enabled

\* if was_running and new_profile.enabled
StartAfterUpdate(c) == c.is_running /\ c.newp.enabled

\* update_profile, lines 74-80: the old entries are popped, the new profile
\* is registered, its runner started if the old one was running (start_profile
\* finds the profile just registered, and the new runner without a thread),
\* and the profiles are saved.
update_replace ==
    /\ cmd.op = "update"
    /\ cmd.pc = "replace"
    /\ register_profile({cmd.name}, cmd.newp)
    /\ IF StartAfterUpdate(cmd) /\ cmd.newp.enabled
       THEN /\ stop_event' = [stop_event EXCEPT ![nrunners + 1] = FALSE]
            /\ thread' = [thread EXCEPT ![nrunners + 1] = "begin"]
       ELSE UNCHANGED <<stop_event, thread>>
    /\ cmd' = [cmd EXCEPT !.pc = "ret"]
    /\ UNCHANGED <<lock, ncmds, cont, process, os, restart_attempts, waited,
                   sleep_len, launches, emitted, listeners, delivered, files,
                   io>>

\* ScriptManager.remove_profile up to the runner's stop(force=False): the
\* runner is popped first; without one, the rest follows at once.
remove_profile(n) ==
    /\ CanManage
    /\ ncmds' = ncmds + 1
    /\ lock' = "ui"
    /\ runners' = [runners EXCEPT ![n] = NoRunner]
    /\ LET c == [Idle EXCEPT !.op = "remove", !.name = n] IN
       IF runners[n] = NoRunner
       THEN /\ cmd' = [c EXCEPT !.pc = "ret"]
            /\ profiles' = [profiles EXCEPT ![n] = NoProfile]
            /\ statuses' = [statuses EXCEPT ![n] = NoStatus]
            /\ saved' = ProfileSet(profiles')
            /\ UNCHANGED stop_event
       ELSE /\ stop_begin(c, runners[n])
            /\ UNCHANGED <<profiles, statuses, saved>>
    /\ UNCHANGED <<rprofile, status, thread, cont, process, os,
                   restart_attempts, waited, sleep_len, launches, emitted,
                   nrunners, listeners, delivered, files, io>>

\* remove_profile, lines 87-89, once stop() has returned.
remove_discard ==
    /\ cmd.op = "remove"
    /\ cmd.pc = "discard"
    /\ profiles' = [profiles EXCEPT ![cmd.name] = NoProfile]
    /\ statuses' = [statuses EXCEPT ![cmd.name] = NoStatus]
    /\ saved' = ProfileSet(profiles')
    /\ cmd' = [cmd EXCEPT !.pc = "ret"]
    /\ UNCHANGED <<runners, lock, ncmds, run_vars, nrunners, listeners,
                   delivered, files, io>>

\* The store holds one or two of the profiles that add_profile is given
\* here: no delays, no restart.
RegistryInit ==
    \E q \in {NoProfile, ScriptProfile("b", "/ok.sh", FALSE, FALSE, 0, 0, NoInt, TRUE)} :
        Constructed(ScriptProfile("a", "/ok.sh", FALSE, FALSE, 0, 0, NoInt, TRUE), q)

\* The loop threads of such profiles: they never sleep (start_delay and
\* restart_delay are 0).
RegistryLoopStep ==
    \E r \in RunnerIds :
        \/ run_loop_begin(r)
        \/ loop_check(r)
        \/ launch_process(r)
        \/ wait_returns(r)
        \/ run_loop_finish(r)
        \/ notify_status(r)
        \/ process_exits(r)

RegistryCommand ==
    \/ \E p \in NewProfiles : add_profile(p)
    \/ \E n \in Names, p \in NewProfiles : update_profile(n, p)
    \/ \E n \in Names : remove_profile(n)
    \/ \E n \in Names : CanManage /\ start_profile(n)
    \/ send_sigterm
    \/ send_sigint
    \/ send_sigkill
    \/ stop_join
    \/ update_replace
    \/ remove_discard
    \/ command_returns

RegistryNext == RegistryLoopStep \/ RegistryCommand

\* The manager with profiles added, updated and removed while units run.
RegistrySpec == RegistryInit /\ [][RegistryNext]_vars

\* ------------------------------------------------------------ ProfileStore
\* Python values.  A str is a sequence of pieces of text, a blank being a
\* piece of its own.
Str(s) == <<"str", s>>
Num(n) == <<"num", n>>
Bool(b) == <<"bool", b>>
PyNone == <<"none">>
Dict(pairs) == <<"dict", pairs>>
List(items) == <<"list", items>>

\* The fields of the dataclass ScriptProfile, in their order.
Fields ==
    <<"name", "script_path", "working_dir", "auto_start", "restart_on_exit",
      "restart_delay", "start_delay", "environment", "log_path",
      "max_restarts", "enabled">>
FieldSet == {Fields[i] : i \in 1..Len(Fields)}
Required == {"name", "script_path"}

\* The defaults of the dataclass (restart_delay 5.0 s, in tenths).
Default ==
    [f \in FieldSet \ Required |->
        CASE f = "working_dir" -> PyNone
          [] f = "auto_start" -> Bool(FALSE)
          [] f = "restart_on_exit" -> Bool(TRUE)
          [] f = "restart_delay" -> Num(50)
          [] f = "start_delay" -> Num(0)
          [] f = "environment" -> Dict(<< >>)
          [] f = "log_path" -> PyNone
          [] f = "max_restarts" -> PyNone
          [] f = "enabled" -> Bool(TRUE)]

\* The profiles handed to the store: names with and without a blank, with
\* and without environment, log path, restart budget; enabled or not.
StoredNames == {<<"a">>, <<"my", " ", "job">>}
StoredProfiles ==
    { [name |-> Str(n), script_path |-> Str(<<"/ok.sh">>),
       working_dir |-> PyNone, auto_start |-> Bool(FALSE),
       restart_on_exit |-> Bool(~full), restart_delay |-> Num(5),
       start_delay |-> Num(0),
       environment |-> IF full THEN Dict(<< <<Str(<<"K">>), Str(<<"v", " ", "w">>)>> >>)
                       ELSE Dict(<< >>),
       log_path |-> IF full THEN Str(<<"/var/x.log">>) ELSE PyNone,
       max_restarts |-> IF full THEN Num(3) ELSE PyNone,
       enabled |-> Bool(full)] :
      n \in StoredNames, full \in BOOLEAN }

\* The lists of at most MaxProfiles profiles with distinct names.
ProfileLists ==
    UNION { {l \in [1..k -> StoredProfiles] :
                \A i, j \in 1..k : i # j => l[i].name # l[j].name} :
            k \in 0..MaxProfiles }

\* Mutant: asdict leaves the environment out.
to_dict_noenv(p) ==
    Dict(SelectSeq([i \in 1..Len(Fields) |-> <<Str(<<Fields[i]>>), p[Fields[i]]>>],
                   LAMBDA kv : kv[1] # Str(<<"environment">>)))

\* ScriptProfile.to_dict: asdict(self)
to_dict(p) ==
    Dict([i \in 1..Len(Fields) |-> <<Str(<<Fields[i]>>), p[Fields[i]]>>])

\* The value of key f in the pairs of a dict (the last one wins).
Lookup(pairs, f) ==
    LET hits == {i \in 1..Len(pairs) : pairs[i][1] = Str(<<f>>)}
    IN pairs[CHOOSE i \in hits : \A j \in hits : j <= i][2]

\* ScriptProfile.from_dict: cls(**data).  A TypeError for data that is no
\* mapping, for a key that is no field and for a missing required field.
FromDictFails(d) ==
    \/ d[1] # "dict"
    \/ \E i \in 1..Len(d[2]) :
          \A f \in FieldSet : d[2][i][1] # Str(<<f>>)
    \/ \E f \in Required : \A i \in 1..Len(d[2]) : d[2][i][1] # Str(<<f>>)

from_dict(d) ==
    [f \in FieldSet |->
        IF \E i \in 1..Len(d[2]) : d[2][i][1] = Str(<<f>>)
        THEN Lookup(d[2], f)
        ELSE Default[f]]

\* self.name.replace(" ", "_")
SafeName(n) == [i \in 1..Len(n) |-> IF n[i] = " " THEN "_" ELSE n[i]]

\* str(base_dir / "logs")
LogsDir == <<"/base/logs">>

\* ScriptProfile.ensure_paths: a missing or empty log_path becomes the default
\* one (the directories it creates are left aside).
ensure_paths(p) ==
    IF p.log_path = PyNone \/ p.log_path = Str(<< >>)
    THEN [p EXCEPT !.log_path =
              Str(LogsDir \o <<"/">> \o SafeName(p.name[2]) \o <<".log">>)]
    ELSE p

\* JSON text, token by token.
Punct(c) == <<"p", c>>
StrTok(s) == <<"s", s>>
NumTok(n) == <<"n", n>>
LitTok(w) == <<"l", w>>
IsPunct(t, c) == t[1] = "p" /\ t[2] = c

\* json.dumps(value)
RECURSIVE Dumps(_)
RECURSIVE DumpItems(_)
RECURSIVE DumpMembers(_)
Dumps(v) ==
    CASE v[1] = "str" -> <<StrTok(v[2])>>
      [] v[1] = "num" -> <<NumTok(v[2])>>
      [] v[1] = "bool" -> <<LitTok(IF v[2] THEN "true" ELSE "false")>>
      [] v[1] = "none" -> <<LitTok("null")>>
      [] v[1] = "list" -> <<Punct("[")>> \o DumpItems(v[2]) \o <<Punct("]")>>
      [] v[1] = "dict" -> <<Punct("{")>> \o DumpMembers(v[2]) \o <<Punct("}")>>
DumpItems(items) ==
    IF items = << >> THEN << >>
    ELSE IF Len(items) = 1 THEN Dumps(items[1])
    ELSE Dumps(items[1]) \o <<Punct(",")>> \o DumpItems(Tail(items))
DumpMembers(pairs) ==
    IF pairs = << >> THEN << >>
    ELSE LET m == Dumps(pairs[1][1]) \o <<Punct(":")>> \o Dumps(pairs[1][2])
         IN IF Len(pairs) = 1 THEN m
            ELSE m \o <<Punct(",")>> \o DumpMembers(Tail(pairs))

\* json.loads(text): a parse [ok, val, rest]; ok is FALSE for text that is no
\* JSON value.
NoParse == [ok |-> FALSE, val |-> PyNone, rest |-> << >>]
Parsed(v, rest) == [ok |-> TRUE, val |-> v, rest |-> rest]
RECURSIVE ParseValue(_)
RECURSIVE ParseItems(_, _)
RECURSIVE ParseMembers(_, _)
ParseValue(t) ==
    IF t = << >> THEN NoParse
    ELSE LET h == t[1] IN
         CASE h[1] = "s" -> Parsed(Str(h[2]), Tail(t))
           [] h[1] = "n" -> Parsed(Num(h[2]), Tail(t))
           [] h[1] = "l" ->
                Parsed(IF h[2] = "null" THEN PyNone ELSE Bool(h[2] = "true"), Tail(t))
           [] IsPunct(h, "[") ->
                IF Len(t) > 1 /\ IsPunct(t[2], "]")
                THEN Parsed(List(<< >>), Tail(Tail(t)))
                ELSE ParseItems(Tail(t), << >>)
           [] IsPunct(h, "{") ->
                IF Len(t) > 1 /\ IsPunct(t[2], "}")
                THEN Parsed(Dict(<< >>), Tail(Tail(t)))
                ELSE ParseMembers(Tail(t), << >>)
           [] OTHER -> NoParse
ParseItems(t, acc) ==
    LET v == ParseValue(t) IN
    IF ~v.ok \/ v.rest = << >> THEN NoParse
    ELSE IF IsPunct(v.rest[1], "]") THEN Parsed(List(Append(acc, v.val)), Tail(v.rest))
    ELSE IF IsPunct(v.rest[1], ",") THEN ParseItems(Tail(v.rest), Append(acc, v.val))
    ELSE NoParse
ParseMembers(t, acc) ==
    IF Len(t) < 2 \/ t[1][1] # "s" \/ ~IsPunct(t[2], ":") THEN NoParse
    ELSE LET v == ParseValue(Tail(Tail(t)))
             pair == <<Str(t[1][2]), v.val>>
         IN IF ~v.ok \/ v.rest = << >> THEN NoParse
            ELSE IF IsPunct(v.rest[1], "}")
                 THEN Parsed(Dict(Append(acc, pair)), Tail(v.rest))
            ELSE IF IsPunct(v.rest[1], ",")
                 THEN ParseMembers(Tail(v.rest), Append(acc, pair))
            ELSE NoParse

\* A file: its bytes as text (tokens), or bytes that are no UTF-8 text.
Content(text) == <<"file", TRUE, text>>
Undecodable == <<"file", FALSE, << >>>>

\* What save_profiles writes for the profiles ps.
Serialized(ps) == Dumps(List([i \in 1..Len(ps) |-> to_dict(ensure_paths(ps[i]))]))

\* for item in raw: what the loop iterates over, or a TypeError.
NotIterable(raw) == raw[1] \in {"num", "bool", "none"}
ItemsOf(raw) ==
    CASE raw[1] = "list" -> raw[2]
      [] raw[1] = "dict" -> [i \in 1..Len(raw[2]) |-> raw[2][i][1]]
      [] raw[1] = "str" -> [i \in 1..Len(raw[2]) |-> Str(<<raw[2][i]>>)]

\* ProfileStore.load_profiles on the store file c: [raised, result, backup].
LoadOutcome(c) ==
    IF c = Missing
    THEN [raised |-> None, result |-> << >>, backup |-> FALSE]
    ELSE IF ~c[2]
    THEN [raised |-> "UnicodeDecodeError", result |-> << >>, backup |-> FALSE]
    ELSE LET r == ParseValue(c[3]) IN
         IF ~r.ok \/ r.rest # << >>
         THEN [raised |-> "JSONDecodeError", result |-> << >>, backup |-> TRUE]
         ELSE IF NotIterable(r.val)
                 \/ \E i \in 1..Len(ItemsOf(r.val)) : FromDictFails(ItemsOf(r.val)[i])
         THEN [raised |-> "TypeError", result |-> << >>, backup |-> FALSE]
         ELSE [raised |-> None, backup |-> FALSE,
               result |-> [i \in 1..Len(ItemsOf(r.val)) |->
                              ensure_paths(from_dict(ItemsOf(r.val)[i]))]]

\* The store calls leave the manager and its runners alone.
StoreOnly ==
    UNCHANGED <<mgr_vars, lock, cmd, ncmds, run_vars, listeners, delivered,
                nrunners, saved>>

\* A store call may begin: none is in progress (the one before has returned,
\* raised, or the program was stopped and runs again).
CanStore == io.pc \in {"idle", "done", "raised", "crashed"} /\ io.nops < MaxStoreOps

load_profiles ==
    /\ CanStore
    /\ LET out == LoadOutcome(files[StorePath]) IN
       /\ io' = [io EXCEPT !.op = "load", !.nops = @ + 1, !.arg = << >>,
                           !.text = << >>, !.pos = 0,
                           !.before = files[StorePath],
                           !.pc = IF out.raised = None THEN "done" ELSE "raised",
                           !.raised = out.raised, !.result = out.result]
       /\ files' = IF out.backup
                   THEN [files EXCEPT ![BackupPath] = files[StorePath]]
                   ELSE files
    /\ StoreOnly

\* save_profiles, lines 41-46 up to the opening of the temporary file: the
\* profiles are normalised and serialised, the file is created empty.
save_begin(ps) ==
    /\ CanStore
    /\ io' = [io EXCEPT !.op = "save", !.nops = @ + 1, !.pc = "write",
                        !.arg = ps,
                        !.text = Serialized(ps), !.pos = 0,
                        !.before = files[StorePath], !.raised = None,
                        !.result = << >>]
    /\ files' = [files EXCEPT ![TempPath] = Content(<< >>)]
    /\ StoreOnly

\* write_text: the next piece of the text reaches the temporary file.
save_write ==
    /\ io.op = "save"
    /\ io.pc = "write"
    /\ io.pos < Len(io.text)
    /\ LET upto == Min(io.pos + WriteChunk, Len(io.text)) IN
       /\ files' = [files EXCEPT ![TempPath] = Content(SubSeq(io.text, 1, upto))]
       /\ io' = [io EXCEPT !.pos = upto]
    /\ StoreOnly

\* temp_path.replace(self._store_path), and save_profiles returns.
save_replace ==
    /\ io.op = "save"
    /\ io.pc = "write"
    /\ io.pos = Len(io.text)
    /\ files' = [f \in StoreFiles |->
                    IF f = StorePath THEN files[TempPath]
                    ELSE IF f = TempPath THEN Missing
                    ELSE files[f]]
    /\ io' = [io EXCEPT !.pc = "done", !.last = <<io.arg>>]
    /\ StoreOnly

\* The program stops in the middle of save_profiles.
crash ==
    /\ io.pc = "write"
    /\ io' = [io EXCEPT !.pc = "crashed"]
    /\ UNCHANGED files
    /\ StoreOnly

\* What the store file may hold when the program starts: nothing, what an
\* earlier save wrote, a cut-off text, bytes that are no text, an empty JSON
\* object.
EarlierSave == Serialized(<<CHOOSE p \in StoredProfiles : p.enabled = Bool(TRUE)>>)
InitialStores ==
    { Missing, Content(EarlierSave), Content(SubSeq(EarlierSave, 1, 7)),
      Undecodable, Content(<<Punct("{"), Punct("}")>>) }

StoreInit ==
    /\ Registered(FullLoopProfile, NoProfile)
    /\ \E c \in InitialStores : files = [f \in StoreFiles |-> IF f = StorePath THEN c ELSE Missing]
    /\ io = IoIdle

StoreNext ==
    \/ load_profiles
    \/ \E ps \in ProfileLists : save_begin(ps)
    \/ save_write
    \/ save_replace
    \/ crash

\* The store on its own: loads and saves, and stops of the program in a save.
StoreSpec == StoreInit /\ [][StoreNext]_vars

\* ------------------------------------------------------------- listeners
\* What a registered callback does when it is called.
ListenerKinds == {"returns", "raises"}

\* ScriptManager.register_listener
register_listener(b) ==
    /\ cmd = Idle
    /\ Len(listeners) < MaxListeners
    /\ listeners' = Append(listeners, b)
    /\ UNCHANGED <<mgr_vars, lock, cmd, ncmds, run_vars, delivered, nrunners,
                   saved, files, io>>

ListenerNext ==
    \/ Next
    \/ \E b \in ListenerKinds : register_listener(b)

\* The manager with listeners registered by its user.
ListenerSpec == Constructed(FullLoopProfile, NoProfile) /\ [][ListenerNext]_vars

\* The same program with threads that keep running: a call in progress goes
\* on, and so does every loop thread that can (the bounded waits of stop()
\* end by themselves; a script need never exit).  The store holds an enabled
\* profile with an existing script, restarted after a delay and without a
\* budget.
FairProfiles ==
    {p \in ProfilesFor("a") :
        /\ p.enabled
        /\ p.script_path \in ExistingFiles
        /\ p.max_restarts = NoInt
        /\ p.restart_on_exit
        /\ p.restart_delay > 0}

FairInit == \E p \in FairProfiles : Constructed(p, NoProfile)

FairSpec ==
    /\ FairInit
    /\ [][Next]_vars
    /\ WF_vars(CommandStep)
    /\ \A r \in RunnerIds : WF_vars(ThreadStep(r))

\* ------------------------------------------------------------------ claims
\* The loop of runner r has made its last transition.
LoopOver(r) ==
    \/ thread[r] \in {"finish", "done"}
    \/ thread[r] = "notify" /\ cont[r] = "finish"

BudgetError == "Reached max restart attempts"

\* The loop of r ended by itself (no stop() since its start()) in FAILED
\* because the restart budget was used up.
BudgetExhausted(r) ==
    /\ LoopOver(r)
    /\ ~stop_event[r]
    /\ status[r].state = FAILED
    /\ status[r].last_error = BudgetError

\* C1: with restart_on_exit and max_restarts = N and no stop requested, the
\* loop launches the process exactly N + 1 times and then ends in FAILED with
\* no further launch: once FAILED for the exhausted budget is set, the loop is
\* over, the last child has exited and N + 1 launches were made.
C1_LaunchesUntilFailed ==
    \A r \in RunnerIds :
        ( /\ status[r].state = FAILED
          /\ status[r].last_error = BudgetError
          /\ ~stop_event[r]
          /\ thread[r] \notin {"begin", "start_sleep", "check"} )
        => /\ LoopOver(r)
           /\ rprofile[r].restart_on_exit
           /\ rprofile[r].max_restarts # NoInt
           /\ launches[r] = rprofile[r].max_restarts[1] + 1
           /\ os[r].st = "exited"

C1_Witness ==
    \E r \in RunnerIds :
        /\ thread[r] = "done"
        /\ BudgetExhausted(r)
        /\ rprofile[r].max_restarts = <<2>>
        /\ launches[r] = 3

\* C2: when the loop has ended in FAILED because max_restarts = N was used
\* up, status.restarts is N, the number of relaunches made (launches - 1).
C2_RestartsAtExhaustion ==
    \A r \in RunnerIds :
        BudgetExhausted(r)
        => /\ status[r].restarts = rprofile[r].max_restarts[1]
           /\ status[r].restarts = launches[r] - 1

Cycle == <<STARTING, RUNNING, RESTARTING>>

\* The profile of scenario 1: the script exists, restart_on_exit, max_restarts = 2.
Scenario1(r) ==
    /\ rprofile[r].restart_on_exit
    /\ rprofile[r].max_restarts = <<2>>
    /\ ~ScriptMissing(r)

\* C3 as stated: the emitted states are STARTING, RUNNING, RESTARTING three
\* times, then FAILED.
C3_ThreeRestartingThenFailed ==
    \A r \in RunnerIds :
        (Scenario1(r) /\ BudgetExhausted(r))
        => emitted[r] = Cycle \o Cycle \o Cycle \o <<FAILED>>

\* C3 amended: the emitted states are STARTING, RUNNING, RESTARTING twice,
\* then STARTING, RUNNING, FAILED.
C3_TwoRestartingThenFailed ==
    \A r \in RunnerIds :
        (Scenario1(r) /\ BudgetExhausted(r))
        => emitted[r] = Cycle \o Cycle \o <<STARTING, RUNNING, FAILED>>

C3_Witness ==
    \E r \in RunnerIds :
        /\ Scenario1(r)
        /\ BudgetExhausted(r)
        /\ thread[r] = "done"
        /\ Len(emitted[r]) = 9

\* C4: restart_profile on a registered, enabled unit whose process is RUNNING
\* ends with a new supervisory loop started for the unit.
C4_RestartStartsNewLoop ==
    [][ ( /\ cmd.op = "restart"
          /\ cmd.pc = "start"
          /\ cmd'.pc = "ret"
          /\ cmd.was_running
          /\ profiles[cmd.name].enabled )
        => /\ thread'[cmd.r] = "begin"
           /\ ~stop_event'[cmd.r] ]_vars

\* C5: start_profile for an unregistered name or a disabled profile changes
\* nothing: no thread, no process, the same statuses and registry maps.
C5_StartIsNoOp ==
    [][ ( /\ cmd.op = "idle"
          /\ cmd'.op = "start"
          /\ (profiles[cmd'.name] = NoProfile \/ ~profiles[cmd'.name].enabled) )
        => UNCHANGED <<ext_vars, delivered, mgr_vars, run_vars>> ]_vars

C5_Witness ==
    /\ cmd.op = "start"
    /\ cmd.pc = "ret"
    /\ cmd.name = "a"
    /\ ~profiles["a"].enabled
    /\ thread[runners["a"]] = "none"
    /\ status[runners["a"]].state = STOPPED

\* C6: no process is ever started for a disabled profile (no command of this
\* model changes a profile, so disabled at the command is disabled throughout).
C6_DisabledNeverLaunched ==
    \A r \in RunnerIds :
        ~rprofile[r].enabled => (os[r].st = "none" /\ launches[r] = 0)

\* C7: a stop() called when no child is alive (after a stop() that reaped it,
\* or on a runner never started) sends no signal, leaves STOPPED with pid and
\* process handle cleared, and emits STOPPED once.
C7_StopIdempotent ==
    [][ ( /\ cmd.pc = "join"
          /\ cmd'.pc # "join"
          /\ ~cmd.was_live )
        => /\ cmd.sent = << >>
           /\ cmd'.sent = << >>
           /\ status'[cmd.r].state = STOPPED
           /\ status'[cmd.r].pid = None
           /\ ~process'[cmd.r]
           /\ emitted'[cmd.r] = Append(emitted[cmd.r], STOPPED) ]_vars

SignalCodes == {<<-15>>, <<-2>>, <<-9>>}

\* The third command is a stop whose call found the child reaped by a signal
\* of the stop before it.
C7_Witness ==
    /\ cmd.op = "stop"
    /\ cmd.pc = "ret"
    /\ cmd.r \in RunnerIds
    /\ ncmds = 3
    /\ ~cmd.was_live
    /\ cmd.sent = << >>
    /\ os[cmd.r].code \in SignalCodes
    /\ status[cmd.r].state = STOPPED
    /\ status[cmd.r].pid = None

\* C8: when process.wait() returns with the cancellation flag set, the
\* restart counter stays as it is and the loop ends in STOPPED, not RESTARTING.
C8_StopDoesNotCountRestart ==
    [][ \A r \in RunnerIds :
          (thread[r] = "wait" /\ stop_event[r] /\ thread'[r] # "wait")
          => /\ status'[r].restarts = status[r].restarts
             /\ restart_attempts'[r] = restart_attempts[r]
             /\ status'[r].state = STOPPED
             /\ LoopOver(r)' ]_vars

\* A stop() of a RUNNING unit is waiting in join; the loop has seen the exit
\* and set STOPPED itself.
C8_Witness ==
    /\ cmd.pc = "join"
    /\ cmd.was_running
    /\ LoopOver(cmd.r)
    /\ status[cmd.r].state = STOPPED
    /\ status[cmd.r].last_exit_code \in SignalCodes
    /\ status[cmd.r].restarts = 0
    /\ rprofile[cmd.r].restart_on_exit

RestartWait == {"rwait_check", "rsleep"}

\* C9: once the cancellation flag is set during the restart wait, no new
\* sleep begins (a running one is at most one increment long), the loop goes
\* from the wait to the loop test and from there to its end, and nothing is
\* launched.
C9_CancelDuringRestartWait ==
    [][ \A r \in RunnerIds :
          (stop_event[r] /\ thread[r] \in RestartWait \cup {"check"})
          => /\ thread[r] = "rsleep" =>
                  (sleep_len[r] <= SleepIncrement /\ thread'[r] \in RestartWait)
             /\ thread[r] = "rwait_check" => thread'[r] \in {"rwait_check", "check"}
             /\ thread[r] = "check" => thread'[r] \in {"check", "finish"}
             /\ stop_event'[r]
             /\ launches'[r] = launches[r]
             /\ os'[r] = os[r] ]_vars

\* The loop has left the wait before restart_delay was over.
C9_Witness ==
    \E r \in RunnerIds :
        /\ thread[r] = "finish"
        /\ stop_event[r]
        /\ status[r].state = RESTARTING
        /\ waited[r] > 0
        /\ waited[r] < rprofile[r].restart_delay

\* C10: with a missing script the loop emits STARTING, then FAILED with the
\* path in last_error, and ends; nothing is launched and neither RUNNING nor
\* RESTARTING is emitted.
C10_MissingScriptFails ==
    \A r \in RunnerIds :
        rprofile[r].script_path \notin ExistingFiles
        => /\ launches[r] = 0
           /\ os[r].st = "none"
           /\ \A i \in 1..Len(emitted[r]) : emitted[r][i] \notin {RUNNING, RESTARTING, EXITED}
           /\ (LoopOver(r) /\ ~stop_event[r])
                => /\ emitted[r] = <<STARTING, FAILED>>
                   /\ status[r].state = FAILED
                   /\ status[r].last_error = "Script not found: /missing.sh"
           /\ (status[r].state = FAILED /\ thread[r] \notin {"begin", "start_sleep", "check"})
                => LoopOver(r)

C10_Witness ==
    \E r \in RunnerIds :
        /\ thread[r] = "done"
        /\ rprofile[r].script_path = "/missing.sh"
        /\ status[r].state = FAILED
        /\ status[r].last_error = "Script not found: /missing.sh"
        /\ emitted[r] = <<STARTING, FAILED>>

Ladder == <<"SIGTERM", "SIGINT", "SIGKILL">>

\* C11: the ladder's signals are sent in the order terminate, interrupt,
\* kill; a later signal is sent only to a process that no earlier signal has
\* ended (one that exits on terminate gets no interrupt or kill); a process
\* that is alive after terminate and interrupt gets the kill; and the stop()
\* whose ladder sent all three ends in STOPPED.
C11_LadderOrder ==
    [][ /\ Len(cmd'.sent) > Len(cmd.sent)
           => /\ cmd'.sent = SubSeq(Ladder, 1, Len(cmd.sent) + 1)
              /\ cmd.sent # << >> => os[cmd.r].code \notin SignalCodes
        /\ ( /\ cmd.sent = <<"SIGTERM", "SIGINT">>
             /\ os[cmd.r].st = "alive"
             /\ cmd' # cmd )
           => cmd'.sent = Ladder
        /\ (cmd.pc = "join" /\ cmd'.pc # "join" /\ cmd.sent = Ladder)
           => status'[cmd.r].state = STOPPED ]_vars

\* A stop(force=False) has returned after all three signals, the child still
\* alive.
C11_Witness ==
    /\ cmd.op = "stop"
    /\ cmd.pc = "ret"
    /\ ~cmd.force
    /\ cmd.sent = Ladder
    /\ os[cmd.r].st = "alive"
    /\ status[cmd.r].state = STOPPED

\* C12: a stop(force=True) that found a live process has sent the interrupt
\* signal by the end of its ladder, also when the process exited on terminate.
C12_ForceSendsInterrupt ==
    [][ ( /\ cmd.pc \in {"sigterm", "sigint", "sigkill"}
          /\ cmd'.pc = "join"
          /\ cmd.force
          /\ cmd.was_live )
        => \E i \in 1..Len(cmd'.sent) : cmd'.sent[i] = "SIGINT" ]_vars

\* The command issued in this step is one of the three structural errors.
StructuralError ==
    /\ cmd.op = "idle"
    /\ \/ cmd'.op = "add" /\ IsRegistered(cmd'.newp.name)
       \/ cmd'.op = "update" /\ ~IsRegistered(cmd'.name)
       \/ /\ cmd'.op = "update"
          /\ cmd'.newp.name # cmd'.name
          /\ IsRegistered(cmd'.newp.name)

\* C13: add_profile of a registered name, update_profile of an unregistered
\* name and update_profile onto the name of another registered unit raise and
\* change neither the three maps, nor what was saved, nor any runner.
C13_StructuralErrorsChangeNothing ==
    [][ StructuralError
        => /\ cmd'.raised \in {"ValueError", "KeyError"}
           /\ cmd'.pc = "ret"
           /\ UNCHANGED <<mgr_vars, run_vars, saved, nrunners, files>> ]_vars

\* update_profile("a", a profile named "b") has raised, with "b" registered
\* and the unit "a" running, as it still is.
C13_Witness ==
    /\ cmd.op = "update"
    /\ cmd.pc = "ret"
    /\ cmd.raised = "ValueError"
    /\ cmd.name = "a"
    /\ cmd.newp.name = "b"
    /\ IsRegistered("b")
    /\ status[runners["a"]].state = RUNNING
    /\ ProcessLive(runners["a"])
    /\ thread[runners["a"]] = "wait"

\* C14: the step that completes update_profile(old, new) leaves under
\* new.name the new profile, a new status and a runner constructed in this
\* step, and nothing under old; the new runner's loop is started if the unit
\* was running when update_profile was called and new.enabled, and otherwise
\* it has no thread and is STOPPED.
C14_UpdateReplaces ==
    [][ (cmd.op = "update" /\ cmd.pc = "replace" /\ cmd'.pc = "ret")
        => LET new == cmd.newp
               r == runners'[new.name]
           IN /\ profiles'[new.name] = new
              /\ statuses'[new.name] = FreshStatus
              /\ r = nrunners'
              /\ r > nrunners
              /\ rprofile'[r] = new
              /\ status'[r] = ProcessStatus(new.name)
              /\ new.name # cmd.name
                   => /\ profiles'[cmd.name] = NoProfile
                      /\ statuses'[cmd.name] = NoStatus
                      /\ runners'[cmd.name] = NoRunner
              /\ IF cmd.was_running /\ new.enabled
                 THEN thread'[r] = "begin" /\ ~stop_event'[r]
                 ELSE thread'[r] = "none" ]_vars

\* The running unit "a" was updated to an enabled profile named "b", whose
\* runner has been started.
C14_Witness ==
    /\ cmd.op = "update"
    /\ cmd.pc = "ret"
    /\ cmd.raised = None
    /\ cmd.name = "a"
    /\ cmd.newp.name = "b"
    /\ cmd.newp.enabled
    /\ cmd.was_running
    /\ runners["b"] = nrunners
    /\ thread[runners["b"]] = "begin"
    /\ ~IsRegistered("a")

\* No command is in progress and no loop thread is alive.
Quiescent == cmd = Idle /\ \A r \in RunnerIds : ~ThreadAlive(r)

\* C15: whenever no command is in progress and every loop thread has ended,
\* the profile map, the runner map and the status map have the same keys.
C15_SameKeys ==
    Quiescent
    => \A n \in Names :
          /\ IsRegistered(n) <=> HasRunner(n)
          /\ IsRegistered(n) <=> statuses[n] # NoStatus

\* C16: a load that follows a completed save of the profiles P returns,
\* without raising, the profiles of P in their order, each equal field by
\* field to the one of P after ensure_paths.
C16_RoundTrip ==
    (io.op = "load" /\ io.pc \in {"done", "raised"} /\ io.last # << >>)
    => /\ io.raised = None
       /\ io.result = [i \in 1..Len(io.last[1]) |-> ensure_paths(io.last[1][i])]

\* Two profiles were saved and loaded, one of them with a blank in its name
\* and no log path, which the load returns with the default log path.
C16_Witness ==
    /\ io.op = "load"
    /\ io.pc = "done"
    /\ io.last # << >>
    /\ Len(io.result) = 2
    /\ \E i \in 1..2 :
          /\ io.last[1][i].name = Str(<<"my", " ", "job">>)
          /\ io.last[1][i].log_path = PyNone
          /\ io.result[i].log_path = Str(<<"/base/logs", "/", "my", "_", "job", ".log">>)
    /\ \E i \in 1..2 : io.result[i].environment # Dict(<< >>)

\* C17: from the beginning of save_profiles to its return the store file
\* holds what it held before, and at the return the complete new text; this
\* also where the program stopped in the middle.
C17_SaveAtomic ==
    io.op = "save"
    => IF io.pc = "done"
       THEN files[StorePath] = Content(Serialized(io.arg))
       ELSE files[StorePath] = io.before

\* The program stopped with part of the text written: the temporary file is
\* cut off, the store file holds the earlier save.
C17_Witness ==
    /\ io.op = "save"
    /\ io.pc = "crashed"
    /\ io.pos > 0
    /\ io.pos < Len(io.text)
    /\ files[TempPath] = Content(SubSeq(io.text, 1, io.pos))
    /\ io.before = Content(EarlierSave)
    /\ files[StorePath] = Content(EarlierSave)
    /\ Serialized(io.arg) # EarlierSave

\* A store file that is there and is not what save_profiles writes.
Corrupt(c) ==
    /\ c # Missing
    /\ \A ps \in ProfileLists : c # Content(Serialized(ps))

\* C18: load_profiles on a corrupt store file raises, having left a copy of
\* the file at the backup path and the file itself as it was; on a missing
\* file it returns the empty list.
C18_CorruptStoreBackedUp ==
    (io.op = "load" /\ io.pc \in {"done", "raised"})
    => /\ Corrupt(io.before)
            => /\ io.pc = "raised"
               /\ files[BackupPath] = io.before
               /\ files[StorePath] = io.before
       /\ io.before = Missing => (io.pc = "done" /\ io.result = << >>)

StopPcs == {"sigterm", "sigint", "sigkill", "join"}

\* C19: a stop() in progress returns, and the step by which it returns leaves
\* the runner's status STOPPED with pid cleared, whatever the ladder and the
\* join have achieved.
C19_StopReturnsStopped ==
    /\ [][ (cmd.pc = "join" /\ cmd'.pc # "join")
           => /\ status'[cmd.r].state = STOPPED
              /\ status'[cmd.r].pid = None ]_vars
    /\ (cmd.pc \in StopPcs) ~> (cmd.pc \notin StopPcs)

\* A stop() has returned although all three signals left the child alive and
\* the loop thread is still waiting for it.
C19_Witness ==
    /\ cmd.op = "stop"
    /\ cmd.pc = "ret"
    /\ cmd.sent = Ladder
    /\ os[cmd.r].st = "alive"
    /\ thread[cmd.r] = "wait"
    /\ status[cmd.r].state = STOPPED
    /\ status[cmd.r].pid = None

\* A status callback is made in this step (by a loop thread, or by stop()).
StatusUpdate ==
    \/ \E r \in RunnerIds : thread[r] = "notify" /\ thread'[r] # "notify"
    \/ cmd.pc = "join" /\ cmd'.pc # "join"

\* C20: every status update calls every registered listener, in registration
\* order, whatever the listeners before it do.
C20_AllListenersNotified ==
    [][ StatusUpdate => delivered' = [i \in 1..Len(listeners) |-> i] ]_vars

\* C21: a status callback made with a listener that raises leaves the
\* transition applied (the runner's status as written, the manager's entry
\* set) and the loop goes on exactly where the transition leads; a stop()
\* goes on to its caller's next step with the status STOPPED.
C21_CallbackFailureDoesNotAbort ==
    [][ /\ \A r \in RunnerIds :
             (thread[r] = "notify" /\ thread'[r] # "notify")
             => /\ thread'[r] = cont[r]
                /\ cont'[r] = cont[r]
                /\ status'[r] = status[r]
                /\ statuses'[status[r].name] = StatusOf(r)
        /\ (cmd.pc = "join" /\ cmd'.pc # "join")
             => /\ cmd'.pc = AfterStop(cmd)
                /\ status'[cmd.r].state = STOPPED
                /\ statuses'[status[cmd.r].name] = StatusOf(cmd.r) ]_vars

\* The first listener raises; the update last delivered (RUNNING of the
\* second launch) ended at it, and the loop is waiting for the child.
C21_Witness ==
    /\ Len(listeners) = 2
    /\ listeners[1] = "raises"
    /\ delivered = <<1>>
    /\ thread[1] = "wait"
    /\ launches[1] = 2
    /\ status[1].state = RUNNING
    /\ emitted[1] = <<STARTING, RUNNING, RESTARTING, STARTING, RUNNING>>

\* C22: when process.wait() returns with the cancellation flag clear and
\* restart_on_exit false, the loop records the exit code, clears pid, sets
\* EXITED and goes to its end without touching the restart counter; a loop
\* that has emitted EXITED launched once and launches nothing more (for every
\* runner constructed so far).
C22_NoRestartExits ==
    [][ \A r \in 1..nrunners :
          /\ ( /\ thread[r] = "wait"
               /\ thread'[r] # "wait"
               /\ ~stop_event[r]
               /\ ~rprofile[r].restart_on_exit )
             => /\ status'[r].state = EXITED
                /\ status'[r].last_exit_code = os[r].code
                /\ status'[r].pid = None
                /\ status'[r].restarts = status[r].restarts
                /\ restart_attempts'[r] = restart_attempts[r]
                /\ LoopOver(r)'
          /\ (LoopOver(r) /\ status[r].state = EXITED)
             => /\ launches'[r] = launches[r]
                /\ os'[r] = os[r]
                /\ LoopOver(r)' \/ thread'[r] = "begin" ]_vars

\* A script that ended by itself with exit code 1 and is not restarted.
C22_Witness ==
    \E r \in RunnerIds :
        /\ thread[r] = "done"
        /\ ~stop_event[r]
        /\ ~rprofile[r].restart_on_exit
        /\ status[r].state = EXITED
        /\ status[r].last_exit_code = <<1>>
        /\ status[r].pid = None
        /\ status[r].restarts = 0
        /\ launches[r] = 1

\* C23: when add_profile, update_profile or remove_profile returns without
\* raising, the profiles last handed to the store are exactly the profiles
\* of the registry, field by field.
C23_StoreFollowsRegistry ==
    ( /\ cmd.pc = "ret"
      /\ cmd.op \in {"add", "update", "remove"}
      /\ cmd.raised = None )
    => saved = {profiles[n] : n \in Names} \ {NoProfile}

\* update_profile has renamed the only unit "a" to a disabled "b": the store
\* was handed the new profile alone.
C23_Witness ==
    /\ cmd.op = "update"
    /\ cmd.pc = "ret"
    /\ cmd.raised = None
    /\ cmd.name = "a"
    /\ cmd.newp.name = "b"
    /\ ~cmd.newp.enabled
    /\ ~IsRegistered("a")
    /\ profiles["b"] = cmd.newp
    /\ saved = {cmd.newp}

\* C24: the listener list is written only while the manager's lock is held.
C24_ListenersWrittenUnderLock ==
    [][ listeners' # listeners => lock # "free" ]_vars

\* C25: the status record of a unit is written, and its status emitted, by
\* the unit's loop thread alone: a stop() whose join ended with the loop
\* thread still alive neither writes nor emits the status.
C25_StatusOwnedByLoopThread ==
    [][ (cmd.pc = "join" /\ cmd'.pc # "join" /\ ThreadAlive(cmd.r))
        => /\ status'[cmd.r] = status[cmd.r]
           /\ emitted'[cmd.r] = emitted[cmd.r] ]_vars

\* C26: a status with a pid has state RUNNING; so STOPPED, STARTING,
\* RESTARTING, EXITED and FAILED are emitted with pid None, by the loop and by
\* stop() alike.
C26_PidOnlyWhileRunning ==
    \A r \in RunnerIds :
        status[r].pid # None => status[r].state = RUNNING

\* stop() has emitted STOPPED without a pid while the loop thread, which had
\* set the pid, is still waiting to deliver RUNNING.
C26_Witness ==
    /\ cmd.op = "stop"
    /\ cmd.pc = "ret"
    /\ cmd.r \in RunnerIds
    /\ cmd.was_live
    /\ thread[cmd.r] = "notify"
    /\ cont[cmd.r] = "wait"
    /\ status[cmd.r].state = STOPPED
    /\ status[cmd.r].pid = None
    /\ emitted[cmd.r] = <<STARTING, RUNNING, STOPPED>>

\* C27: a loop thread is created, and the cancellation flag cleared, only in
\* a start() that finds no loop thread of the runner alive; a child process
\* comes to life only by the launch of the loop, and is alive only while its
\* loop thread is.
C27_OneLoopOneChild ==
    /\ [][ \A r \in RunnerIds :
             /\ (thread'[r] = "begin" /\ thread[r] # "begin") => ~ThreadAlive(r)
             /\ (stop_event[r] /\ ~stop_event'[r])
                  => (~ThreadAlive(r) /\ thread'[r] = "begin")
             /\ (os'[r].st = "alive" /\ os[r].st # "alive")
                  => (thread[r] = "launch" /\ launches'[r] = launches[r] + 1) ]_vars
    /\ [](\A r \in RunnerIds : os[r].st = "alive" => ThreadAlive(r))

\* start_profile of an enabled unit has returned with the cancellation flag
\* still set: the loop thread that outlived the stop() before it is alive,
\* so start() did nothing.
C27_Witness ==
    /\ cmd.op = "start"
    /\ cmd.pc = "ret"
    /\ StartAllowed(cmd.name)
    /\ stop_event[runners[cmd.name]]
    /\ ThreadAlive(runners[cmd.name])
    /\ os[runners[cmd.name]].st = "alive"

\* The last stop() of runner r has returned and no start() has followed.
StopReturned(r) ==
    /\ stop_event[r]
    /\ ~(cmd.r = r /\ cmd.pc \in StopPcs)

\* C28: from the return of stop() to the next start() the runner launches
\* nothing, no child comes to life and the state stays STOPPED.
C28_NoLaunchAfterStop ==
    [][ \A r \in RunnerIds :
          StopReturned(r)
          => /\ launches'[r] = launches[r]
             /\ os[r].st # "alive" => os'[r].st # "alive"
             /\ status'[r].state = STOPPED ]_vars

\* C29: whenever the manager's lock is free, the status held for a name is
\* the one of the runner registered under that name (or the one made at its
\* registration), and a name without a runner has no status.
C29_StatusOfRegisteredRunner ==
    lock = "free"
    => \A n \in Names :
          IF HasRunner(n)
          THEN statuses[n] \in {FreshStatus, StatusOf(runners[n])}
          ELSE statuses[n] = NoStatus

\* C30: the join of a stop() that found a live process, which has exited on
\* a signal of the ladder, ends because the loop thread has ended.
C30_JoinEndsWithThread ==
    [][ ( /\ cmd.pc = "join"
          /\ cmd'.pc # "join"
          /\ cmd.was_live
          /\ os[cmd.r].st = "exited"
          /\ os[cmd.r].code \in SignalCodes )
        => ~ThreadAlive(cmd.r) ]_vars

\* The pairs of states that may follow each other in the emissions of one
\* unit.
AllowedTransitions ==
    ({STOPPED, EXITED, FAILED} \X {STARTING})
    \cup ({STARTING} \X {RUNNING, FAILED})
    \cup ({RUNNING} \X {STOPPED, EXITED, RESTARTING, FAILED})
    \cup ({RESTARTING} \X {STARTING})
    \cup ({STOPPED, STARTING, RUNNING, RESTARTING, EXITED, FAILED} \X {STOPPED})

\* C31: the states emitted for a unit since its loop began follow each other
\* by the allowed transitions only; in particular RUNNING comes right after
\* STARTING.
C31_EmittedTransitions ==
    \A r \in 1..nrunners :
        \A i \in 1..(Len(emitted[r]) - 1) :
            <<emitted[r][i], emitted[r][i + 1]>> \in AllowedTransitions

\* Until stop() emitted STOPPED, the loop of r, still alive, had emitted
\* active states only: the loop was active when stop() was called.
ActiveUntilStop(r) ==
    /\ ThreadAlive(r)
    /\ Len(emitted[r]) >= 2
    /\ emitted[r][Len(emitted[r])] = STOPPED
    /\ \A i \in 1..(Len(emitted[r]) - 1) :
          emitted[r][i] \in {STARTING, RUNNING, RESTARTING}

\* C32: update_profile of a unit whose loop was active, with an enabled new
\* profile, returns with the loop of the new runner started.
C32_UpdateKeepsSupervision ==
    [][ ( /\ cmd.op = "update"
          /\ cmd.pc = "replace"
          /\ cmd'.pc = "ret"
          /\ cmd.newp.enabled
          /\ cmd.r \in RunnerIds
          /\ ActiveUntilStop(cmd.r) )
        => thread'[runners'[cmd.newp.name]] = "begin" ]_vars
====
